---------------------------- MODULE Spec2Model ----------------------------
(***************************************************************************)
(* PkSpawn (src/src/pk-spawn.c): a GObject that owns one helper process,   *)
(* drains its stdout on a 50 ms poll source, escalates SIGQUIT to SIGKILL  *)
(* on a 500 ms one-shot source and can wait for the helper in a nested     *)
(* main loop (pk_spawn_exit).                                              *)
(*                                                                         *)
(* Everything runs on one GLib main context.  An action is one public call *)
(* or one dispatched source callback.  pk_spawn_exit blocks in             *)
(* g_main_loop_run: the call is split at that point (pc records the        *)
(* blocked frame) and the callbacks dispatched by the nested loop are the  *)
(* same actions as at top level.  While a frame is blocked the caller can  *)
(* still reach pk_spawn_kill (a timeout callback, as cancel_cb does) and   *)
(* pk_spawn_exit (the case the is_sending_exit guard exists for); a        *)
(* pk_spawn_argv or a finalize under a blocked frame is not modelled.      *)
(*                                                                         *)
(* Strings are sequences of one-character strings.  A helper process is a  *)
(* nondeterministic writer of bytes that may exit at any time.             *)
(***************************************************************************)
EXTENDS Integers, Sequences, FiniteSets, TLC

(* ------------------------------ bounds -------------------------------- *)
MaxPid == 2            \* helper processes the OS creates in one run
MaxSrc == 3            \* main-context sources installed or remembered at one time
MaxOut == 1            \* bytes one helper writes to its stdout
MaxLine == 3           \* bytes a helper writes in one write (2), and the buffer holds

(* ------------------------- program constants -------------------------- *)
NOFD    == -1          \* "no descriptor" / "no child" value of the fields
EINVAL_ == 22
EPERM_  == 1
NICE_MIN == -20
NICE_MAX == 19

NL  == "NL"
TAB == "TAB"
Bytes == {"a", NL}                     \* what a helper may write to stdout

Pids   == 1..MaxPid
PidsX  == Pids \cup {NOFD}
SrcIds == 1..MaxSrc

ExitTypes == {"unknown", "success", "failed", "sigquit", "sigkill",
              "dispatcher_exit", "dispatcher_changed"}

NullStr == <<"NULL">>                  \* a NULL gchar*
NullVec == [null |-> TRUE,  v |-> <<>>]          \* a NULL gchar**
Vec(s)  == [null |-> FALSE, v |-> s]

Argv0s   == {<<"x">>, <<"y">>}
ArgTails == {<<>>, << <<"p">>, <<"q", " ", "r">> >>}
Envps    == {NullVec, Vec(<<>>), Vec(<< <<"A">>, <<"B">> >>), Vec(<< <<"B">>, <<"A">> >>)}
NiceConf == {0, 25}                    \* BackendSpawnNiceValue as configured
\* the calls of pk_spawn_argv the main specification follows
LaunchArgs ==
  {[argv |-> <<a0, <<"p">> >>, envp |-> NullVec, nice |-> 0] : a0 \in Argv0s}
ExitCmd  == <<"e", "x", "i", "t">>

(* --------------------------- pure helpers ----------------------------- *)
BSeqs(k) == UNION {[1..n -> Bytes] : n \in 0..k}

Clamp(x, lo, hi) == IF x < lo THEN lo ELSE IF x > hi THEN hi ELSE x

\* g_strsplit (str, "\n", 0): the segments between newlines; "" gives none
RECURSIVE SplitFrom(_, _, _)
SplitFrom(s, i, cur) ==
  IF i > Len(s) THEN <<cur>>
  ELSE IF s[i] = NL THEN <<cur>> \o SplitFrom(s, i + 1, <<>>)
  ELSE SplitFrom(s, i + 1, Append(cur, s[i]))

g_strsplit(s) == IF s = <<>> THEN <<>> ELSE SplitFrom(s, 1, <<>>)

RECURSIVE SumLenPlus1(_, _)
SumLenPlus1(lines, n) ==
  IF n = 0 THEN 0 ELSE Len(lines[n]) + 1 + SumLenPlus1(lines, n - 1)

\* an erase that counts the emitted lines without their newlines
pk_spawn_emit_whole_lines_no_newline(s) ==
  IF s = <<>> THEN [lines |-> <<>>, rest |-> s]
  ELSE LET lines == g_strsplit(s)
           size  == Len(lines)
           bytes_processed == SumLenPlus1(lines, size - 1) - (size - 1)
       IN [lines |-> SubSeq(lines, 1, size - 1),
           rest  |-> SubSeq(s, bytes_processed + 1, Len(s))]

\* pk_spawn_emit_whole_lines: the lines emitted and the buffer left
pk_spawn_emit_whole_lines(s) ==
  IF s = <<>> THEN [lines |-> <<>>, rest |-> s]
  ELSE LET lines == g_strsplit(s)
           size  == Len(lines)
           bytes_processed == SumLenPlus1(lines, size - 1)
       IN [lines |-> SubSeq(lines, 1, size - 1),
           rest  |-> SubSeq(s, bytes_processed + 1, Len(s))]

\* g_strjoinv (sep, strv)
RECURSIVE g_strjoinv(_, _)
g_strjoinv(sep, strv) ==
  IF strv = <<>> THEN <<>>
  ELSE IF Len(strv) = 1 THEN strv[1]
  ELSE strv[1] \o <<sep>> \o g_strjoinv(sep, Tail(strv))

\* egg_strequal: NULL equals nothing
egg_strequal(a, b) == a # NullStr /\ b # NullStr /\ a = b

\* egg_strvequal: NULL equals only NULL, otherwise element-wise in order
egg_strvequal(a, b) ==
  IF a.null /\ b.null THEN TRUE
  ELSE IF a.null \/ b.null THEN FALSE
  ELSE Len(a.v) = Len(b.v) /\ \A i \in 1..Len(a.v) : a.v[i] = b.v[i]


(* ------------------------------- state -------------------------------- *)
VARIABLES
  priv,        \* struct PkSpawnPrivate (exit_loop: is the nested loop running)
  polls,       \* installed pk_spawn_check_child sources (ids)
  timers,      \* installed pk_spawn_sigkill_cb sources (ids)
  pc,          \* "idle", or the frame blocked in g_main_loop_run
  pend,        \* the arguments of a pk_spawn_argv blocked in pk_spawn_exit
  proc,        \* process table: helper pid -> state
  npid,        \* pids handed out so far
  pipe,        \* helper pid -> bytes in its stdout pipe, not yet read
  destroyed,   \* pk_spawn_finalize has run
  aborted,     \* egg_error has ended the program
  obs,         \* history of the unreaped helpers and the count of exit signals
  act          \* what the last step did: call, return value, writes, signals

vars == <<priv, polls, timers, pc, pend, proc, npid, pipe,
          destroyed, aborted, obs, act>>

NoArgs == [argv |-> <<>>, envp |-> NullVec, nice |-> 0]
LaunchCall(argv, envp, nice) == [argv |-> argv, envp |-> envp, nice |-> nice]
NoProc == [st |-> "none", code |-> 0]
Reaped == [st |-> "reaped", code |-> 0]

Act(op, ret) ==
  [op |-> op, ret |-> ret, wrote |-> <<>>, lines |-> <<>>, exits |-> <<>>,
   sig |-> <<>>, spawn |-> "none", reniced |-> {}, args |-> NoArgs]

\* pk_spawn_init
InitPriv ==
  [child_pid |-> NOFD, stdout_fd |-> NOFD, stdin_fd |-> NOFD,
   poll_id |-> 0, kill_id |-> 0, finished |-> FALSE,
   is_sending_exit |-> FALSE, is_changing_dispatcher |-> FALSE,
   last_argv0 |-> NullStr, last_envp |-> NullVec,
   exit |-> "unknown", stdout_buf |-> <<>>, exit_loop |-> FALSE]

\* the state after pk_spawn_new, with no helper process yet
Init ==
  /\ priv = InitPriv
  /\ polls = {} /\ timers = {}
  /\ pc = "idle" /\ pend = NoArgs
  /\ proc = [p \in Pids |-> NoProc]
  /\ npid = 0
  /\ pipe = [p \in Pids |-> <<>>]
  /\ destroyed = FALSE /\ aborted = FALSE
  /\ obs = [nout    |-> [p \in Pids |-> 0],      \* bytes the unreaped helper wrote
            nexits  |-> [p \in Pids |-> 0],      \* exit signals emitted for it
            stray   |-> 0,                       \* exit signals emitted with no child
            late    |-> {},                      \* helpers with a stdout signal after exit
            quit_to |-> {}, kill_to |-> {},      \* helpers that were sent the signal
            killed  |-> {},                      \* helpers pk_spawn_kill acted on
            nochild |-> FALSE,                   \* pk_spawn_kill signalled with no helper
            asked   |-> {},                      \* helpers that were written "exit"
            fds     |-> {}]                      \* pipes whose ends the parent holds
  /\ act = [op |-> "init", ret |-> TRUE, wrote |-> <<>>, lines |-> <<>>,
            exits |-> <<>>, sig |-> <<>>, spawn |-> "none", reniced |-> {},
            args |-> NoArgs]

Live == ~destroyed /\ ~aborted

(* ----------------------------- the helper ----------------------------- *)
\* the helper writes one byte to its stdout while the parent holds the read end
ChildWrite(p, b) ==
  /\ Live
  /\ proc[p].st = "run"
  /\ priv.stdout_fd = p
  /\ obs.nout[p] < MaxOut
  /\ pipe' = [pipe EXCEPT ![p] = Append(@, b)]
  /\ obs' = [obs EXCEPT !.nout[p] = @ + 1]
  /\ act' = Act("none", TRUE)
  /\ UNCHANGED <<priv, polls, timers, pc, pend, proc, npid, destroyed, aborted>>

\* the running helper writes several bytes to its stdout in one write (2); the
\* parent reads them on a later tick (obs.nout counts single-byte writes only)
ChildWriteLine(p, s) ==
  /\ Live
  /\ proc[p].st = "run"
  /\ priv.stdout_fd = p
  /\ s # <<>>
  /\ pipe[p] = <<>>
  /\ Len(priv.stdout_buf) + Len(s) <= MaxLine
  /\ pipe' = [pipe EXCEPT ![p] = s]
  /\ act' = Act("none", TRUE)
  /\ UNCHANGED <<priv, polls, timers, pc, pend, proc, npid, destroyed, aborted, obs>>

\* the helper exits with a status code (of its own accord, or after reading "exit")
ChildExit(p, code) ==
  /\ ~aborted
  /\ proc[p].st = "run"
  /\ proc' = [proc EXCEPT ![p].st = "zombie", ![p].code = code]
  /\ act' = Act("none", TRUE)
  /\ UNCHANGED <<priv, polls, timers, pc, pend, npid, pipe, destroyed, aborted, obs>>

\* kill (pid, sig) succeeded: SIGKILL ends a running helper, SIGQUIT one that does
\* not ignore it (dies); pid -1 reaches every process.  WEXITSTATUS of a
\* signalled process is 0.
Deliver(pr, target, sig, dies) ==
  [p \in Pids |->
     IF (target = p \/ target = NOFD) /\ pr[p].st = "run"
        /\ (sig = "KILL" \/ dies)
     THEN [pr[p] EXCEPT !.st = "zombie", !.code = 0]
     ELSE pr[p]]

\* waitpid (pid, &status, WNOHANG): the pid reaped, 0 (still running) or -1
Waitpid(pr, pid) ==
  IF pid \in Pids
  THEN (IF pr[pid].st = "zombie" THEN pid ELSE IF pr[pid].st = "run" THEN 0 ELSE -1)
  ELSE IF \E z \in Pids : pr[z].st = "zombie"
       THEN CHOOSE z \in Pids : pr[z].st = "zombie"
       ELSE IF \E z \in Pids : pr[z].st = "run" THEN 0 ELSE -1

\* what the helper may do between the tick's last read and its waitpid
MidSteps(pid) ==
  IF pid \in Pids /\ proc[pid].st = "run"
  THEN {[w |-> s, ex |-> e] : s \in BSeqs(MaxOut - obs.nout[pid]), e \in {-1, 0, 1}}
  ELSE {[w |-> <<>>, ex |-> -1]}

\* g_timeout_add: an id no source has and the object does not remember (GLib
\* never hands out an id again); 0 when the model has none left
FreshId(p) ==
  LET free == SrcIds \ (polls \cup timers \cup {p.poll_id, p.kill_id})
  IN IF free = {} THEN 0 ELSE CHOOSE i \in free : \A j \in free : i <= j

(* ------------------------- pk_spawn_send_stdin ------------------------ *)
WriteOutcomes == {"full", "short"}     \* write (2) takes the whole buffer, or not

\* the count write (2) returns for a buffer of `length` bytes
WriteCount(fd, length, wr) ==
  IF fd = NOFD THEN -1
  ELSE IF wr = "full" THEN length
  ELSE length - 1

\* pk_spawn_send_stdin: the return value and the write (2) call it made, with
\* the buffer handed over and the count returned
pk_spawn_send_stdin(p, command, wr) ==
  IF p.finished THEN [ret |-> FALSE, wrote |-> <<>>]
  ELSE LET buffer == command \o <<NL>>
           length == Len(buffer)
           wrote  == WriteCount(p.stdin_fd, length, wr)
       IN [ret   |-> (wrote = length),
           wrote |-> << [fd |-> p.stdin_fd, bytes |-> buffer, n |-> wrote] >>]

(* ---------------------------- pk_spawn_exit --------------------------- *)
\* a pk_spawn_exit that leaves is_sending_exit set when the write failed
ExitPrefix_keeps_flag(p, wr) ==
  IF p.is_sending_exit
  THEN [ret |-> FALSE, blocks |-> FALSE, priv |-> p, wrote |-> <<>>, asked |-> {}]
  ELSE LET s == pk_spawn_send_stdin([p EXCEPT !.is_sending_exit = TRUE], ExitCmd, wr)
       IN [ret |-> s.ret, blocks |-> s.ret, wrote |-> s.wrote,
           asked |-> {p.child_pid} \cap Pids,
           priv |-> [p EXCEPT !.is_sending_exit = TRUE, !.exit_loop = s.ret]]

\* a pk_spawn_exit that never runs the nested loop
ExitPrefix_no_loop(p, wr) ==
  IF p.is_sending_exit
  THEN [ret |-> FALSE, blocks |-> FALSE, priv |-> p, wrote |-> <<>>, asked |-> {}]
  ELSE LET s == pk_spawn_send_stdin([p EXCEPT !.is_sending_exit = TRUE], ExitCmd, wr)
       IN [ret |-> s.ret, blocks |-> FALSE, wrote |-> s.wrote,
           asked |-> {p.child_pid} \cap Pids,
           priv |-> [p EXCEPT !.is_sending_exit = FALSE]]

\* pk_spawn_exit up to g_main_loop_run: blocks says whether the loop is entered
ExitPrefix(p, wr) ==
  IF p.is_sending_exit
  THEN [ret |-> FALSE, blocks |-> FALSE, priv |-> p, wrote |-> <<>>, asked |-> {}]
  ELSE LET s == pk_spawn_send_stdin([p EXCEPT !.is_sending_exit = TRUE], ExitCmd, wr)
       IN IF s.ret
          THEN [ret |-> TRUE, blocks |-> TRUE, wrote |-> s.wrote,
                asked |-> {p.child_pid} \cap Pids,
                priv |-> [p EXCEPT !.is_sending_exit = TRUE, !.exit_loop = TRUE]]
          ELSE [ret |-> FALSE, blocks |-> FALSE, wrote |-> s.wrote,
                asked |-> {p.child_pid} \cap Pids,
                priv |-> [p EXCEPT !.is_sending_exit = FALSE]]

\* pk_spawn_exit called by the user of the object
GracefulExit ==
  /\ Live
  /\ \E wr \in WriteOutcomes :
       LET e == ExitPrefix(priv, wr)
       IN /\ priv' = e.priv
          /\ pc' = IF e.blocks THEN "exit_wait" ELSE pc
          /\ obs' = [obs EXCEPT !.asked = @ \cup e.asked]
          /\ act' = [Act(IF e.blocks THEN "exit_blocked" ELSE "exit", e.ret)
                       EXCEPT !.wrote = e.wrote]
  /\ UNCHANGED <<polls, timers, pend, proc, npid, pipe, destroyed, aborted>>

\* a pk_spawn_exit that does not wait for the loop to be quit
ExitResume_no_wait ==
  /\ pc = "exit_wait"
  /\ priv' = [priv EXCEPT !.is_sending_exit = FALSE]
  /\ pc' = "idle"
  /\ act' = Act("exit", TRUE)
  /\ UNCHANGED <<polls, timers, pend, proc, npid, pipe, destroyed, aborted, obs>>

\* g_main_loop_run returns in pk_spawn_exit: the rest of the call
ExitResume ==
  /\ pc = "exit_wait"
  /\ ~priv.exit_loop
  /\ priv' = [priv EXCEPT !.is_sending_exit = FALSE]
  /\ pc' = "idle"
  /\ act' = Act("exit", TRUE)
  /\ UNCHANGED <<polls, timers, pend, proc, npid, pipe, destroyed, aborted, obs>>

(* ---------------------------- pk_spawn_argv --------------------------- *)
\* a reuse test that compares the executable name only
ReuseMatch_argv0_only(p, argv, envp) == egg_strequal(p.last_argv0, argv[1])

\* may the caller reuse the running dispatcher
ReuseMatch(p, argv, envp) ==
  /\ egg_strequal(p.last_argv0, argv[1])
  /\ egg_strvequal(p.last_envp, envp)

\* the value the renice is applied with
NiceValue(nice) == Clamp(nice, NICE_MIN, NICE_MAX)

\* a pk_spawn_argv that does not look at what g_spawn_async_with_pipes returned
SpawnFailed_unchecked(ok) == FALSE

\* "we failed to invoke the helper": does pk_spawn_argv return FALSE here
SpawnFailed(ok) == ~ok

\* pk_spawn_argv from "create spawned object for tracking" to its return;
\* p is the private data and o the history as the first part of the call left them
SpawnTail(p, o, argv, envp, nice, wrote) ==
  \E ok \in BOOLEAN :
    LET pid == npid + 1
        p1  == [p EXCEPT !.finished = FALSE]
        \* g_spawn_async_with_pipes fills the three out-parameters on success only
        p2  == IF ok THEN [p1 EXCEPT !.child_pid = pid, !.stdin_fd = pid, !.stdout_fd = pid]
               ELSE p1
        ren == IF NiceValue(nice) # 0 THEN {p2.child_pid} ELSE {}
        p3  == [p2 EXCEPT !.last_argv0 = argv[1], !.last_envp = envp]
        id  == FreshId(p)
    IN /\ ok => npid < MaxPid
       /\ (ok /\ p.poll_id = 0) => id # 0
       /\ pc' = "idle"
       /\ pend' = NoArgs
       /\ npid' = IF ok THEN pid ELSE npid
       /\ proc' = IF ok THEN [proc EXCEPT ![pid] = [st |-> "run", code |-> 0]]
                  ELSE proc
       /\ obs' = [o EXCEPT !.fds = IF ok THEN @ \cup {pid} ELSE @]
       /\ IF SpawnFailed(ok)
          THEN /\ priv' = p2
               /\ act' = [Act("launch", FALSE) EXCEPT !.args = LaunchCall(argv, envp, nice),
                            !.wrote = wrote, !.spawn = "fail", !.reniced = ren]
               /\ UNCHANGED <<polls, aborted>>
          ELSE IF p3.poll_id # 0
          THEN \* egg_error: "trying to set timeout when already set"
               /\ priv' = p3
               /\ aborted' = TRUE
               /\ act' = [Act("launch_abort", FALSE) EXCEPT !.args = LaunchCall(argv, envp, nice),
                            !.wrote = wrote, !.reniced = ren,
                            !.spawn = IF ok THEN "ok" ELSE "fail"]
               /\ UNCHANGED polls
          ELSE /\ priv' = [p3 EXCEPT !.poll_id = id]
               /\ polls' = polls \cup {id}
               /\ act' = [Act("launch", TRUE) EXCEPT !.args = LaunchCall(argv, envp, nice),
                            !.wrote = wrote, !.reniced = ren,
                            !.spawn = IF ok THEN "ok" ELSE "fail"]
               /\ UNCHANGED aborted
       /\ UNCHANGED <<timers, pipe, destroyed>>

\* a command line joined with spaces
ReuseCommand_spaces(argv) == g_strjoinv(" ", Tail(argv))

\* "join with tabs, as spaces could be in file name": the line for a reused helper
ReuseCommand(argv) == g_strjoinv(TAB, Tail(argv))

\* pk_spawn_argv
Launch(argv, envp, nice) ==
  /\ Live
  /\ pc = "idle"
  /\ \E wr1 \in WriteOutcomes, wr2 \in WriteOutcomes :
       LET running == priv.stdin_fd # NOFD
           match   == ReuseMatch(priv, argv, envp)
           command == ReuseCommand(argv)
           reuse   == IF running /\ match
                      THEN pk_spawn_send_stdin(priv, command, wr1)
                      ELSE [ret |-> FALSE, wrote |-> <<>>]
           e       == ExitPrefix([priv EXCEPT !.is_changing_dispatcher = TRUE], wr2)
           o1      == [obs EXCEPT !.asked = @ \cup e.asked]
       IN IF running /\ match /\ reuse.ret
          THEN /\ act' = [Act("launch", TRUE) EXCEPT !.args = LaunchCall(argv, envp, nice), !.wrote = reuse.wrote]
               /\ UNCHANGED <<priv, polls, timers, pc, pend, proc, npid, pipe,
                              destroyed, aborted, obs>>
          ELSE IF running /\ e.blocks
          THEN /\ priv' = e.priv
               /\ pc' = "launch_wait"
               /\ pend' = [argv |-> argv, envp |-> envp, nice |-> nice]
               /\ obs' = o1
               /\ act' = [Act("launch_blocked", TRUE) EXCEPT !.args = LaunchCall(argv, envp, nice), !.wrote = reuse.wrote \o e.wrote]
               /\ UNCHANGED <<polls, timers, proc, npid, pipe, destroyed, aborted>>
          ELSE IF running
          THEN SpawnTail([e.priv EXCEPT !.is_changing_dispatcher = FALSE], o1,
                         argv, envp, nice, reuse.wrote \o e.wrote)
          ELSE SpawnTail(priv, obs, argv, envp, nice, <<>>)

\* g_main_loop_run returns in the pk_spawn_exit that pk_spawn_argv called
LaunchResume ==
  /\ pc = "launch_wait"
  /\ ~priv.exit_loop
  /\ SpawnTail([priv EXCEPT !.is_sending_exit = FALSE, !.is_changing_dispatcher = FALSE],
               obs, pend.argv, pend.envp, pend.nice, <<>>)

(* ---------------------------- pk_spawn_kill --------------------------- *)
KillResults == {0, -1}                 \* what kill (2) returns

\* a pk_spawn_kill without the "already finished" test
PkKill_unchecked(p, pr, kr, dies, id) ==
  LET p1  == [p EXCEPT !.exit = "sigquit"]
      pr1 == IF kr = 0 THEN Deliver(pr, p.child_pid, "QUIT", dies) ELSE pr
  IN [ret |-> TRUE, priv |-> [p1 EXCEPT !.kill_id = id], proc |-> pr1,
      timer |-> {id}, sig |-> << [sig |-> "QUIT", to |-> p.child_pid, rv |-> kr] >>,
      killed |-> {p.child_pid} \cap Pids]

\* pk_spawn_kill on private data p; kr is what kill (2) returns, dies whether the
\* helper lets SIGQUIT end it, id the source id g_timeout_add returns
PkKill(p, pr, kr, dies, id) ==
  IF p.finished
  THEN [ret |-> FALSE, priv |-> p, proc |-> pr, timer |-> {}, sig |-> <<>>, killed |-> {}]
  ELSE LET p1     == [p EXCEPT !.exit = "sigquit"]
           retval == kr
           pr1    == IF kr = 0 THEN Deliver(pr, p.child_pid, "QUIT", dies) ELSE pr
           sig    == << [sig |-> "QUIT", to |-> p.child_pid, rv |-> kr] >>
           killed == {p.child_pid} \cap Pids
       IN IF retval = EINVAL_ \/ retval = EPERM_
          THEN [ret |-> FALSE, priv |-> p1, proc |-> pr1, timer |-> {}, sig |-> sig,
                killed |-> killed]
          ELSE [ret |-> TRUE, priv |-> [p1 EXCEPT !.kill_id = id], proc |-> pr1,
                timer |-> {id}, sig |-> sig, killed |-> killed]

\* the unreaped helpers kill (target, ...) addresses
Reached(pr, target) ==
  {q \in Pids : (target = q \/ target = NOFD) /\ pr[q].st \in {"run", "zombie"}}

\* the history after the kill (2) calls `sig` of one step
ObsSignals(o, pr, sig) ==
  [o EXCEPT
     !.quit_to = @ \cup UNION {Reached(pr, sig[i].to) :
                      i \in {j \in DOMAIN sig : sig[j].sig = "QUIT"}},
     !.kill_to = @ \cup UNION {Reached(pr, sig[i].to) :
                      i \in {j \in DOMAIN sig : sig[j].sig = "KILL"}}]

\* pk_spawn_kill called by the user of the object (also from a timeout, as cancel_cb)
Kill ==
  /\ Live
  /\ priv.finished \/ FreshId(priv) # 0
  /\ \E kr \in KillResults, dies \in BOOLEAN :
       LET k == PkKill(priv, proc, kr, dies, FreshId(priv))
       IN /\ priv' = k.priv
          /\ proc' = k.proc
          /\ timers' = timers \cup k.timer
          /\ obs' = [ObsSignals(obs, proc, k.sig) EXCEPT
                      !.killed = @ \cup k.killed,
                      !.nochild = @ \/ (k.sig # <<>> /\ priv.child_pid = NOFD)]
          /\ act' = [Act("kill", k.ret) EXCEPT !.sig = k.sig]
  /\ UNCHANGED <<polls, pc, pend, npid, pipe, destroyed, aborted>>

(* ------------------------- pk_spawn_sigkill_cb ------------------------ *)
\* the one-shot source `id` fires.  On a finalized object the callback reads
\* freed memory: finished and child_pid may then read as any value.
SigkillCb(id) ==
  /\ ~aborted
  /\ id \in timers
  /\ timers' = timers \ {id}
  /\ \E kr \in KillResults :
     \E fin \in (IF destroyed THEN BOOLEAN ELSE {priv.finished}) :
     \E tgt \in (IF destroyed THEN PidsX ELSE {priv.child_pid}) :
       IF fin
       THEN /\ act' = Act("timer", FALSE)
            /\ UNCHANGED <<priv, proc, obs>>
       ELSE LET sig == << [sig |-> "KILL", to |-> tgt, rv |-> kr] >>
            IN /\ priv' = IF destroyed THEN priv ELSE [priv EXCEPT !.exit = "sigkill"]
               /\ proc' = IF kr = 0 THEN Deliver(proc, tgt, "KILL", TRUE) ELSE proc
               /\ obs' = ObsSignals(obs, proc, sig)
               /\ act' = [Act("timer", FALSE) EXCEPT !.sig = sig]
  /\ UNCHANGED <<polls, pc, pend, npid, pipe, destroyed, aborted>>

(* ------------------------- pk_spawn_check_child ----------------------- *)
\* pk_spawn_read_fd_into_buffer: everything the pipe holds is appended
ReadFd(fd) == IF fd \in Pids THEN pipe[fd] ELSE <<>>

\* a reap that forgets to reset child_pid
CloseResources_keeps_pid(p) ==
  [p EXCEPT !.stdin_fd = NOFD, !.stdout_fd = NOFD]

\* "child exited, close resources": the three fields after the reap
CloseResources(p) ==
  [p EXCEPT !.stdin_fd = NOFD, !.stdout_fd = NOFD, !.child_pid = NOFD]

\* the classification stored before the nested-loop test
ExitAfterStatus(cur, code) ==
  IF code > 0
  THEN (IF cur = "unknown" THEN "failed" ELSE cur)
  ELSE (IF cur = "unknown" THEN "success" ELSE cur)

\* the classification after the nested-loop test
ExitAfterLoop(p, cur) ==
  IF p.exit_loop
  THEN (IF p.is_changing_dispatcher THEN "dispatcher_changed"
        ELSE IF p.is_sending_exit THEN "dispatcher_exit"
        ELSE cur)
  ELSE cur

\* the history once helper w is reaped: what is kept per unreaped helper is dropped
Forget(o, w) ==
  IF w \in Pids
  THEN [o EXCEPT !.nout[w] = 0,
                 !.quit_to = @ \ {w}, !.kill_to = @ \ {w},
                 !.killed = @ \ {w}, !.asked = @ \ {w}]
  ELSE o

\* g_signal_emit (spawn, signals [PK_SPAWN_EXIT], 0, exit) while cp is the child
EmitExit(o, cp, kind) ==
  IF cp \in Pids
  THEN [o EXCEPT !.nexits[cp] = IF @ < 2 THEN @ + 1 ELSE @]
  ELSE [o EXCEPT !.stray = 1]

\* a reap that leaves the poll source installed
RemovePoll_keeps(ps, id, poll_id) == ps

\* "child exited, stop polling": g_source_remove (poll_id), and the callback of
\* source `id` returns FALSE
RemovePoll(ps, id, poll_id) == (ps \ {id}) \ {poll_id}

\* the poll source `id` fires
CheckChild(id) ==
  /\ ~aborted
  /\ id \in polls
  /\ IF priv.finished
     THEN \* "finished twice!": the source is dropped
          /\ polls' = polls \ {id}
          /\ act' = Act("tick", FALSE)
          /\ UNCHANGED <<priv, proc, pipe, obs, timers>>
     ELSE \E mid \in MidSteps(priv.child_pid) :
          LET cp     == priv.child_pid
              buf1   == priv.stdout_buf \o ReadFd(priv.stdout_fd)
              em     == pk_spawn_emit_whole_lines(buf1)
              \* the helper runs on between the last read and waitpid
              proc1  == IF mid.ex >= 0
                        THEN [proc EXCEPT ![cp].st = "zombie", ![cp].code = mid.ex]
                        ELSE proc
              pipe1  == IF priv.stdout_fd \in Pids
                        THEN [pipe EXCEPT ![priv.stdout_fd] = <<>>] ELSE pipe
              pipe2  == IF mid.w # <<>> THEN [pipe1 EXCEPT ![cp] = @ \o mid.w] ELSE pipe1
              obs1   == IF cp \in Pids
                        THEN [obs EXCEPT
                                !.nout[cp] = @ + Len(mid.w),
                                !.late = IF em.lines # <<>> /\ obs.nexits[cp] > 0
                                         THEN @ \cup {cp} ELSE @]
                        ELSE obs
              w      == Waitpid(proc1, cp)
              p1     == [priv EXCEPT !.stdout_buf = em.rest]
              proc2  == IF w \in Pids THEN [proc1 EXCEPT ![w] = Reaped] ELSE proc1
          IN IF w # cp
             THEN \* still running: keep polling
                  /\ priv' = p1
                  /\ proc' = proc2
                  /\ pipe' = pipe2
                  /\ obs' = Forget(obs1, w)
                  /\ polls' = polls
                  /\ timers' = timers
                  /\ act' = [Act("tick", TRUE) EXCEPT !.lines = em.lines]
             ELSE \* WEXITSTATUS (status); status is not written when waitpid fails
                  \E code \in (IF w \in Pids THEN {proc1[w].code} ELSE {0, 1}) :
                  LET kind == ExitAfterLoop(priv, ExitAfterStatus(priv.exit, code))
                      ev   == [pid |-> cp, kind |-> kind, code |-> code,
                               gate |-> priv.exit_loop,
                               killed |-> cp \in obs.killed,
                               asked |-> cp \in obs.asked,
                               sigquit |-> cp \in obs.quit_to,
                               sigkill |-> cp \in obs.kill_to,
                               \* the bytes in the pipe when close () discards them
                               unread |-> IF priv.stdout_fd \in Pids
                                          THEN pipe2[priv.stdout_fd] ELSE <<>>]
                      p2   == [CloseResources(p1) EXCEPT
                                         !.poll_id = 0,
                                         !.exit = kind, !.finished = TRUE,
                                         !.kill_id = 0, !.exit_loop = FALSE]
                  IN /\ priv' = p2
                     /\ polls' = RemovePoll(polls, id, priv.poll_id)
                     /\ timers' = timers \ {priv.kill_id}
                     /\ proc' = proc2
                     /\ pipe' = [q \in Pids |-> IF q \in {priv.stdin_fd, priv.stdout_fd}
                                                THEN <<>> ELSE pipe2[q]]
                     /\ obs' = [EmitExit(Forget(obs1, w), cp, kind) EXCEPT
                                  !.fds = @ \ {priv.stdin_fd, priv.stdout_fd}]
                     /\ act' = [Act("tick", FALSE) EXCEPT
                                  !.lines = em.lines,
                                  !.exits = IF obs'.nexits = obs.nexits /\ obs'.stray = obs.stray
                                            THEN <<>> ELSE <<ev>>]
  /\ UNCHANGED <<pc, pend, npid, destroyed, aborted>>

(* --------------------------- pk_spawn_finalize ------------------------ *)
\* the private data after g_object_unref dropped the last reference: freed memory
Freed == [InitPriv EXCEPT !.finished = TRUE]

\* pk_spawn_finalize
Destroy ==
  /\ Live
  /\ pc = "idle"
  /\ priv.stdin_fd = NOFD \/ FreshId(priv) # 0
  /\ \E kr \in KillResults, dies \in BOOLEAN :
       LET polls1  == IF priv.poll_id # 0 THEN polls \ {priv.poll_id} ELSE polls
           timers1 == IF priv.kill_id # 0 THEN timers \ {priv.kill_id} ELSE timers
           k == IF priv.stdin_fd # NOFD
                THEN PkKill(priv, proc, kr, dies, FreshId(priv))
                ELSE [ret |-> FALSE, priv |-> priv, proc |-> proc, timer |-> {},
                      sig |-> <<>>, killed |-> {}]
       IN /\ polls' = polls1
          /\ timers' = timers1 \cup k.timer
          /\ proc' = k.proc
          /\ obs' = [ObsSignals(obs, proc, k.sig) EXCEPT !.killed = @ \cup k.killed]
          /\ act' = [Act("destroy", TRUE) EXCEPT !.sig = k.sig]
  /\ priv' = Freed
  /\ destroyed' = TRUE
  /\ UNCHANGED <<pc, pend, npid, pipe, aborted>>

(* ------------------------------ behaviour ----------------------------- *)
Next ==
  \/ \E a \in LaunchArgs : Launch(a.argv, a.envp, a.nice)
  \/ LaunchResume
  \/ GracefulExit
  \/ ExitResume
  \/ Kill
  \/ \E id \in SrcIds : SigkillCb(id)
  \/ \E id \in SrcIds : CheckChild(id)
  \/ \E p \in Pids, b \in Bytes : ChildWrite(p, b)
  \/ \E p \in Pids, c \in {0, 1} : ChildExit(p, c)
  \/ Destroy

Spec == Init /\ [][Next]_vars

\* The calls of pk_spawn_argv with every argument vector and environment of the
\* model; forced termination, helper output and finalize are followed by Spec.
RichArgs ==
  {[argv |-> <<a0>> \o t, envp |-> e, nice |-> n] :
     a0 \in Argv0s, t \in ArgTails, e \in Envps, n \in {0}}

NextArgs ==
  \/ \E a \in RichArgs : Launch(a.argv, a.envp, a.nice)
  \/ LaunchResume
  \/ GracefulExit
  \/ ExitResume
  \/ \E id \in SrcIds : CheckChild(id)
  \/ \E p \in Pids : ChildExit(p, 0)

SpecArgs == Init /\ [][NextArgs]_vars

\* launches under both settings of BackendSpawnNiceValue
NiceArgs ==
  {[argv |-> <<a0, <<"p">> >>, envp |-> NullVec, nice |-> n] : a0 \in Argv0s, n \in NiceConf}

NextNice ==
  \/ \E a \in NiceArgs : Launch(a.argv, a.envp, a.nice)
  \/ LaunchResume
  \/ GracefulExit
  \/ ExitResume
  \/ \E id \in SrcIds : CheckChild(id)
  \/ \E p \in Pids : ChildExit(p, 0)

SpecNice == Init /\ [][NextNice]_vars

\* helpers that write whole chunks of output, polled by the tick
NextLines ==
  \/ \E a \in LaunchArgs : Launch(a.argv, a.envp, a.nice)
  \/ LaunchResume
  \/ \E id \in SrcIds : CheckChild(id)
  \/ \E p \in Pids, s \in BSeqs(MaxLine) : ChildWriteLine(p, s)
  \/ \E p \in Pids : ChildExit(p, 0)

SpecLines == Init /\ [][NextLines]_vars

\* The main context keeps dispatching: an installed poll source and an installed
\* timer fire eventually (both are g_timeout_add sources of the default context),
\* and kill (pid, SIGKILL) on a helper that is not reaped yet succeeds.
SigkillArrives ==
  \A i \in DOMAIN act'.sig :
    (act'.sig[i].sig = "KILL" /\ act'.sig[i].to \in Pids
       /\ proc[act'.sig[i].to].st \in {"run", "zombie"}) => act'.sig[i].rv = 0

NextFair ==
  \/ \E a \in LaunchArgs : Launch(a.argv, a.envp, a.nice)
  \/ LaunchResume
  \/ GracefulExit
  \/ ExitResume
  \/ Kill
  \/ \E id \in SrcIds : SigkillCb(id) /\ SigkillArrives
  \/ \E id \in SrcIds : CheckChild(id)
  \/ \E p \in Pids, b \in Bytes : ChildWrite(p, b)
  \/ \E p \in Pids, c \in {0, 1} : ChildExit(p, c)
  \/ Destroy

SpecFair ==
  /\ Init
  /\ [][NextFair]_vars
  /\ \A id \in SrcIds : WF_vars(CheckChild(id)) /\ WF_vars(SigkillCb(id))

(* ------------------------------- claims ------------------------------- *)
Spawned(p) == proc[p].st # "none"
Range(f) == {f[i] : i \in DOMAIN f}
\* the exit signal of the last step, when it emitted one
Ev == act.exits[1]

\* C1 (as amended): for every helper that pk_spawn_argv spawned, at most one exit
\* signal is emitted -- exactly one once a poll tick has reaped it, none when the
\* object is finalized first -- no exit signal is emitted without a child, and no
\* stdout signal is emitted for a helper after its exit signal.
C1_AtMostOneExit ==
  /\ \A p \in Pids : obs.nexits[p] <= 1
  /\ \A p \in Pids : proc[p].st = "reaped" => obs.nexits[p] = 1
  /\ \A p \in Pids : obs.nexits[p] = 1 => proc[p].st = "reaped"
  /\ obs.stray = 0
  /\ obs.late = {}

\* a tick emitted a stdout signal and then the exit signal of the helper it reaped
C1_Witness ==
  /\ act.op = "tick" /\ act.lines # <<>> /\ act.exits # <<>>
  /\ obs.nexits[Ev.pid] = 1

\* C1 (as claimed): once nothing can emit for the object any more (it is finalized
\* and no poll tick is left), every spawned helper has had exactly one exit signal.
C1_ExactlyOneExit ==
  (destroyed /\ polls = {}) => \A p \in Pids : Spawned(p) => obs.nexits[p] = 1

\* C2: when the exit signal of a helper is emitted, every complete line it wrote
\* has been emitted: no newline-terminated line is left unread in its stdout pipe.
C2_NoLineLost ==
  act.exits # <<>> => NL \notin Range(Ev.unread)

\* C3: when the OS rejects the spawn, pk_spawn_argv returns FALSE, the step emits
\* no exit signal and installs no poll tick: a tick that is installed afterwards
\* is the one of an earlier helper that is still unreaped.
C3_SpawnFailure ==
  /\ [](act.spawn = "fail" =>
          /\ act.op = "launch" /\ act.ret = FALSE
          /\ act.exits = <<>>
          /\ priv.child_pid = NOFD => (polls = {} /\ priv.poll_id = 0)
          /\ polls # {} => (polls = {priv.poll_id} /\ proc[priv.child_pid].st # "reaped"))
  /\ [][act'.spawn = "fail" =>
          /\ polls' = polls
          /\ obs'.nexits = obs.nexits /\ obs'.stray = obs.stray
          /\ npid' = npid]_vars

\* a spawn was rejected on an object with no helper
C3_Witness ==
  act.spawn = "fail" /\ act.ret = FALSE /\ priv.child_pid = NOFD /\ ~priv.finished

\* C4: a helper on which neither pk_spawn_kill nor pk_spawn_exit was invoked (on an
\* object on which pk_spawn_kill was only ever called with a helper present) gets
\* exit success when its status is 0 and exit failed when it is not, also when it
\* is not the first helper of the object.
C4_ExitCodeMapping ==
  (act.exits # <<>> /\ Ev.pid \in Pids /\ ~Ev.killed /\ ~Ev.asked /\ ~obs.nochild)
    => Ev.kind = (IF Ev.code = 0 THEN "success" ELSE "failed")

\* C5: a helper on which pk_spawn_kill was invoked and that is reaped with no
\* pk_spawn_exit waiting gets exit sigkill when an escalation timer sent it
\* SIGKILL, and exit sigquit when none did.
C5_KillClassification ==
  (act.exits # <<>> /\ Ev.pid \in Pids /\ Ev.killed /\ ~Ev.gate)
    => Ev.kind = (IF Ev.sigkill THEN "sigkill" ELSE "sigquit")

\* C6: on a live object on which pk_spawn_kill was only ever called with a helper
\* present, the escalation timer sends SIGKILL only to an unreaped helper to which
\* pk_spawn_kill sent SIGQUIT before.
C6_SigkillOnlyAfterSigquit ==
  \A i \in DOMAIN act.sig :
    (~destroyed /\ ~obs.nochild /\ act.sig[i].sig = "KILL" /\ act.sig[i].to \in Pids)
      => /\ act.sig[i].to \in obs.quit_to
         /\ proc[act.sig[i].to].st \in {"run", "zombie"}

\* the last step was a call of pk_spawn_argv (act.args holds its arguments)
LaunchStep == act.op \in {"launch", "launch_blocked", "launch_abort"}
\* a launch that was served by the running helper, without a spawn
Reused == act.op = "launch" /\ act.ret /\ act.spawn = "none"
\* the first write of the last step took a whole line
FullWrite == act.wrote # <<>> /\ act.wrote[1].n = Len(act.wrote[1].bytes)
\* equal vectors: absent equals absent only, otherwise the same strings in the same order
EnvpSame(a, b) == a.null = b.null /\ a.v = b.v

\* C7 (as amended): pk_spawn_argv reuses the running helper if and only if a helper
\* is running, argv[0] equals last_argv0, envp equals last_envp element-wise and in
\* order (absent equals only absent), and the write of the command line to its
\* stdin took the whole line.
C7_ReuseIffMatchAndWritten ==
  [][LaunchStep' =>
       (Reused' <=> /\ priv.stdin_fd # NOFD
                    /\ act'.args.argv[1] = priv.last_argv0
                    /\ EnvpSame(priv.last_envp, act'.args.envp)
                    /\ FullWrite')]_vars

\* a launch with a two-element environment was served by the running helper
C7_Witness ==
  Reused /\ Len(priv.last_envp.v) = 2 /\ priv.stdin_fd # NOFD

\* C7 (as claimed): reuse if and only if a helper is running and argv[0] and envp match.
C7_ReuseIffMatch ==
  [][LaunchStep' =>
       (Reused' <=> /\ priv.stdin_fd # NOFD
                    /\ act'.args.argv[1] = priv.last_argv0
                    /\ EnvpSame(priv.last_envp, act'.args.envp))]_vars

\* argv[2..k] with one tab between neighbours
RECURSIVE TabJoined(_, _)
TabJoined(argv, k) ==
  IF k < 2 THEN <<>>
  ELSE IF k = 2 THEN argv[2]
  ELSE TabJoined(argv, k - 1) \o <<TAB>> \o argv[k]

\* C8: a launch served by reuse spawns no process, leaves every field of the object
\* and every source as it was, and writes exactly one line to the helper's stdin:
\* argv[1..] joined with tabs, then one newline.
C8_ReuseFrame ==
  [][Reused' =>
         /\ priv' = priv
         /\ polls' = polls /\ timers' = timers
         /\ npid' = npid /\ proc' = proc
         /\ act'.exits = <<>> /\ act'.sig = <<>>
         /\ Len(act'.wrote) = 1
         /\ act'.wrote[1].fd = priv.stdin_fd
         /\ act'.wrote[1].bytes =
              TabJoined(act'.args.argv, Len(act'.args.argv)) \o <<NL>>
         /\ act'.wrote[1].n = Len(act'.wrote[1].bytes)]_vars

\* a launch was served by reuse with a command line of two arguments
C8_Witness ==
  Reused /\ TAB \in Range(act.wrote[1].bytes)

\* C9: when pk_spawn_exit returns TRUE the helper has been reaped: finished is
\* set, child_pid and both descriptors are -1, and every helper the object spawned
\* has had its exit signal.
C9_ExitReturnsAfterReap ==
  (act.op = "exit" /\ act.ret) =>
     /\ priv.finished
     /\ priv.child_pid = NOFD /\ priv.stdin_fd = NOFD /\ priv.stdout_fd = NOFD
     /\ \A p \in Pids : Spawned(p) => (proc[p].st = "reaped" /\ obs.nexits[p] = 1)
     /\ obs.fds = {}

\* pk_spawn_exit returned TRUE for a helper that got exit dispatcher_exit
C9_Witness ==
  act.op = "exit" /\ act.ret /\ priv.exit = "dispatcher_exit" /\ pc = "idle"

\* C10 (as amended): of two successive pk_spawn_exit calls on a running helper with
\* no launch in between, when the first call's write of the exit line takes the
\* whole line the first returns TRUE, and the second returns FALSE, leaves every
\* field and source as it was, emits no signal and writes nothing.  (The first
\* returns with finished set; finished stays set until a launch; a call with
\* finished set fails without effect.)
C10_SecondExitFails ==
  /\ []((act.op = "exit" /\ act.ret) => priv.finished)
  /\ [][(pc = "exit_wait" /\ pc' = "idle") => (act'.op = "exit" /\ act'.ret)]_vars
  /\ [][(priv.finished /\ ~priv'.finished) => act'.op \in {"launch", "launch_abort"}]_vars
  /\ [][(GracefulExit /\ priv.finished) =>
          /\ act'.op = "exit" /\ ~act'.ret
          /\ act'.wrote = <<>> /\ act'.exits = <<>> /\ act'.lines = <<>> /\ act'.sig = <<>>
          /\ UNCHANGED <<priv, polls, timers, pc, pend, proc, npid, pipe, obs>>]_vars

\* the second pk_spawn_exit returned FALSE after the first one reaped the helper
C10_Witness ==
  /\ act.op = "exit" /\ ~act.ret /\ pc = "idle"
  /\ priv.finished /\ priv.exit = "dispatcher_exit"

\* C10 (as claimed): a pk_spawn_exit call on a running helper returns TRUE.
C10_FirstExitSucceeds ==
  (act.op = "exit" /\ pc = "idle" /\ priv.stdin_fd # NOFD) => act.ret

\* the helpers the object spawned that are not reaped yet
Unreaped == {p \in Pids : proc[p].st \in {"run", "zombie"}}

\* C11: a helper reaped while the nested loop of pk_spawn_exit runs gets exit
\* dispatcher_changed when pk_spawn_argv started the wait and dispatcher_exit when
\* pk_spawn_exit was called directly, whatever exit held before; a helper reaped
\* while no wait is active gets neither of the two.
C11_DispatcherClassification ==
  (act.exits # <<>> /\ Ev.pid \in Pids) =>
     /\ (Ev.gate /\ pc = "launch_wait") => Ev.kind = "dispatcher_changed"
     /\ (Ev.gate /\ pc = "exit_wait") => Ev.kind = "dispatcher_exit"
     /\ ~Ev.gate => Ev.kind \notin {"dispatcher_exit", "dispatcher_changed"}

\* C12: the object never has two unreaped helpers.
C12_OneUnreapedChild ==
  Cardinality(Unreaped) <= 1

\* C13: after finalize no poll source and no SIGKILL timer of the object is installed.
C13_NoSourceAfterDestroy ==
  destroyed => (polls = {} /\ timers = {})

\* C14: once the object is finalized and no timer it installed is left to fire,
\* the helper is reaped and both pipe descriptors are closed.
C14_DestroyReleases ==
  (destroyed /\ timers = {}) => (Unreaped = {} /\ obs.fds = {})

\* C15: after pk_spawn_kill returned TRUE for helper p, with the main context
\* dispatching the poll source and the timer, p is eventually reaped and has had
\* its exit signal.
C15_KillEventuallyReaps ==
  \A p \in Pids :
    (act.op = "kill" /\ act.ret /\ priv.child_pid = p)
      ~> (proc[p].st = "reaped" /\ obs.nexits[p] = 1)

\* C16: in every state of a live object where finished is set, child_pid and both
\* descriptors are -1, no poll source is installed and no SIGKILL timer is pending.
C16_FinishedMeansReleased ==
  (~destroyed /\ priv.finished) =>
     /\ priv.child_pid = NOFD /\ priv.stdin_fd = NOFD /\ priv.stdout_fd = NOFD
     /\ polls = {} /\ timers = {}

\* C17: child_pid, stdin_fd and stdout_fd of a live object are all -1 or none is.
C17_AllOrNone ==
  ~destroyed =>
     /\ (priv.child_pid = NOFD) <=> (priv.stdin_fd = NOFD)
     /\ (priv.stdin_fd = NOFD) <=> (priv.stdout_fd = NOFD)

\* a second helper runs after a dispatcher swap reaped the first
C17_Witness ==
  /\ ~destroyed /\ priv.child_pid = 2 /\ priv.stdin_fd = 2 /\ priv.stdout_fd = 2
  /\ priv.exit = "dispatcher_changed" /\ proc[1].st = "reaped"

\* the last step was a pk_spawn_argv whose reuse write did not take the whole line
ReuseFailed ==
  /\ LaunchStep /\ act.wrote # <<>>
  /\ act.wrote[1].bytes # ExitCmd \o <<NL>>
  /\ act.wrote[1].n # Len(act.wrote[1].bytes)

\* C18: a pk_spawn_argv whose reuse write is short or fails never reaches egg_error
\* ("trying to set timeout when already set") and never leaves two unreaped helpers.
C18_RespawnAfterFailedReuse ==
  ReuseFailed => (act.op # "launch_abort" /\ ~aborted /\ Cardinality(Unreaped) <= 1)

\* the last write of the last step was an "exit" line that was taken whole
ExitWritten ==
  /\ act.wrote # <<>>
  /\ act.wrote[Len(act.wrote)].bytes = ExitCmd \o <<NL>>
  /\ act.wrote[Len(act.wrote)].n = Len(ExitCmd) + 1

\* C19 (as amended): pk_spawn_kill and a reusing pk_spawn_argv return without a
\* source being dispatched; pk_spawn_argv waits in the nested loop if and only if a
\* helper is running, the call is not served by reuse and the exit line was written
\* whole, and it then goes on only after a tick has reaped the old helper.
C19_LaunchBlocksOnSwap ==
  /\ [][(LaunchStep' /\ pc = "idle") =>
          ((pc' = "launch_wait") <=>
             (priv.stdin_fd # NOFD /\ ~Reused' /\ ExitWritten'))]_vars
  /\ [][(pc = "launch_wait" /\ pc' = "idle") =>
          (priv.finished /\ priv.stdin_fd = NOFD)]_vars
  /\ [][act'.op = "kill" => pc' = pc]_vars
  /\ [](Reused => pc = "idle")

\* pk_spawn_argv with another dispatcher waits for the running helper to exit
C19_Witness ==
  /\ pc = "launch_wait" /\ act.op = "launch_blocked"
  /\ act.args.argv[1] # priv.last_argv0
  /\ priv.child_pid \in Pids /\ proc[priv.child_pid].st = "run"

\* C19 (as claimed): pk_spawn_argv never waits for a tick.
C19_LaunchNeverBlocks ==
  pc # "launch_wait"

\* C20: pk_spawn_kill on an object with a helper stores sigquit in exit only when
\* exit is unknown.
C20_KillKeepsClassification ==
  [][(act'.op = "kill" /\ priv.child_pid \in Pids /\ priv.exit # "unknown")
        => priv'.exit = priv.exit]_vars

\* C21: when kill (child_pid, SIGQUIT) fails for a helper that exists (the signal
\* number is valid and the process is there, so the error is EPERM), pk_spawn_kill
\* returns FALSE and installs no timer.
C21_FailedSigquitNoTimer ==
  [][(/\ act'.op = "kill" /\ act'.sig # <<>>
      /\ act'.sig[1].rv = -1
      /\ act'.sig[1].to \in Pids
      /\ proc[act'.sig[1].to].st \in {"run", "zombie"})
        => (~act'.ret /\ timers' = timers /\ priv'.kill_id = priv.kill_id)]_vars

\* C22: pk_spawn_kill on a live object with finished set returns FALSE, sends no
\* signal, installs no timer and leaves every field as it was.
C22_KillWhenFinished ==
  [][(act'.op = "kill" /\ priv.finished) =>
        /\ ~act'.ret /\ act'.sig = <<>>
        /\ UNCHANGED <<priv, polls, timers, pc, pend, proc, npid, pipe, obs>>]_vars

\* pk_spawn_kill returned FALSE on an object whose helper was reaped
C22_Witness ==
  /\ act.op = "kill" /\ ~act.ret /\ ~destroyed
  /\ priv.finished /\ priv.child_pid = NOFD /\ npid > 0

\* C26: on a live object every kill (2) call is addressed to a helper: no signal
\* is sent while child_pid is -1.
C26_SignalsOnlyToChild ==
  ~destroyed => \A i \in DOMAIN act.sig : act.sig[i].to \in Pids

\* C23: a pk_spawn_argv whose g_spawn_async_with_pipes fails leaves child_pid,
\* stdin_fd, stdout_fd, poll_id, kill_id, exit, last_argv0 and last_envp as they
\* were, and calls setpriority on no helper.
C23_FailedSpawnOnlyFinished ==
  [][(act'.op = "launch" /\ act'.spawn = "fail" /\ pc = "idle") =>
        /\ priv'.child_pid = priv.child_pid
        /\ priv'.stdin_fd = priv.stdin_fd
        /\ priv'.stdout_fd = priv.stdout_fd
        /\ priv'.poll_id = priv.poll_id
        /\ priv'.kill_id = priv.kill_id
        /\ priv'.exit = priv.exit
        /\ priv'.last_argv0 = priv.last_argv0
        /\ priv'.last_envp = priv.last_envp
        /\ act'.reniced \cap Pids = {}]_vars

\* the lines of a GStrv, each followed by one newline, concatenated in order
RECURSIVE JoinNL(_)
JoinNL(lines) ==
  IF lines = <<>> THEN <<>> ELSE Head(lines) \o <<NL>> \o JoinNL(Tail(lines))

\* C24: the line splitting of a tick conserves bytes: the emitted lines, each
\* followed by a newline, then the buffer left, are the buffer the tick split
\* (the old buffer and what the tick read); no emitted line and no buffer left
\* holds a newline.
C24_SplitConservesBytes ==
  [][(act'.op = "tick" /\ ~priv.finished) =>
        /\ JoinNL(act'.lines) \o priv'.stdout_buf
             = priv.stdout_buf \o ReadFd(priv.stdout_fd)
        /\ \A i \in DOMAIN act'.lines : NL \notin Range(act'.lines[i])
        /\ NL \notin Range(priv'.stdout_buf)]_vars

\* a tick emitted a non-empty line and kept a partial line in the buffer
C24_Witness ==
  /\ act.op = "tick"
  /\ \E i \in DOMAIN act.lines : act.lines[i] # <<>>
  /\ priv.stdout_buf # <<>>
  /\ ~priv.finished

\* C25: while a poll source is installed on a live object, finished is FALSE and
\* child_pid holds a pid, and no second poll source is installed: the
\* "finished twice!" branch of pk_spawn_check_child is never taken.
C25_PollImpliesRunning ==
  (~destroyed /\ polls # {}) =>
     /\ ~priv.finished
     /\ priv.child_pid \in Pids
     /\ Cardinality(polls) <= 1

\* the second helper of the object is polled after the first was reaped, which
\* removed the first poll source
C25_Witness ==
  /\ ~destroyed /\ ~aborted
  /\ polls = {priv.poll_id}
  /\ priv.child_pid = 2
  /\ proc[1].st = "reaped"
  /\ act.op = "tick"

\* C27: the lines a tick emits while a helper is the child are made of bytes that
\* helper wrote: with their newlines they are no more bytes than the helper has
\* written so far.
C27_LinesFromThisChild ==
  [][(act'.op = "tick" /\ ~priv.finished /\ priv.child_pid \in Pids) =>
        Len(JoinNL(act'.lines)) <= obs.nout[priv.child_pid]]_vars

=========================================================================
